---------------------------- MODULE Spec2Model ----------------------------
(***************************************************************************)
(* 2D diffusion example (solutions/cuda/diffusion/diffusion2d.cu).         *)
(*                                                                         *)
(* The host (main) issues fill kernels, timing events and stencil kernels  *)
(* on the default stream without waiting; the device executes the stream   *)
(* in issue order.  A stencil launch runs block by block, the blocks in    *)
(* any order and the units of a block in any interleaving; the units of    *)
(* the tiled kernel meet at the __syncthreads() barrier.                   *)
(*                                                                         *)
(* Sizes are scaled down so that the launches can be explored unit by      *)
(* unit: the source's 16x16 blocks are 2x2 here, its interior width of     *)
(* 128 = 8 blocks is 2 blocks, its 192-unit fill blocks are 4 units.  The  *)
(* relations the code depends on are kept: the interior width is a         *)
(* multiple of the block width, the block height is a power of two, and    *)
(* the interior height 2^pow ranges from below the block height to         *)
(* several blocks.                                                         *)
(*                                                                         *)
(* Doubles are modelled exactly: the real value r is the integer r*Scale,  *)
(* Scale = DtDen^MaxSteps, so that MaxSteps updates with dt = DtNum/DtDen  *)
(* divide without remainder.  Rounding is not modelled.                    *)
(*                                                                         *)
(* Spec is the whole program.  SpecFill runs one fill launch unit by unit, *)
(* SpecWidth runs main's and the kernels' integer arithmetic in the        *)
(* integer types of the source (their widths scaled with the grid), and    *)
(* FairSpec is Spec with a host thread and a device that keep running.     *)
(***************************************************************************)
EXTENDS Integers, Sequences, FiniteSets

\* ---------------------------------------------------------------- bounds
\* pow ranges over 0..MaxPow, nsteps over 0..MaxSteps.
MaxPow == 2
MaxSteps == 2
\* the fill kernel on its own is explored for n in 0..MaxFillN
MaxFillN == 6
\* the integer arithmetic on its own is explored for pow in 0..MaxWidePow
MaxWidePow == 13

\* ------------------------------------------------------ program constants
\* double dt = 0.1 (line 85), as the fraction DtNum/DtDen
DtNum == 1
DtDen == 10
\* auto block_dim = 192ul (line 162), scaled
FillBlockDim == 4
\* sizeof(double) (line 122)
SizeofDouble == 8
\* the bits of int and unsigned int (int n, line 152; auto pos, line 28),
\* scaled with the grid: 32 bits for a padded width of 128+2 in the source,
\* 12 bits for one of 4+2 here.  size_t and unsigned long have twice as many.
IntBits == 12

Scale == DtDen ^ MaxSteps
\* the doubles 0. and 1. of lines 100..107
Zero == 0
One == Scale

\* dim3 block_dim(16, 16) (line 113), scaled
block_dim == [x |-> 2, y |-> 2]

\* What device or pinned host memory holds before its first write, and what
\* the staging buffer of a block holds when the block starts: the allocation
\* helpers and the launch leave it unspecified.
Garbage == {Zero, 20 * One}

\* The per-block staging capacity of the target, in bytes: the 48 KB of the
\* devices the example is built for, and one too small for the tile.
SharedMemPerBlock == 48 * 1024

SharedLimits == {SharedMemPerBlock, SizeofDouble}

Buffers == {"A", "B"}

\* --------------------------------------------------------------- memory
\* m[i] = val when i is an element of the array; a store outside it changes
\* nothing here and is recorded by the caller.
Store(m, i, val) == IF i \in DOMAIN m THEN [m EXCEPT ![i] = val] ELSE m

Uniform(n, g) == [k \in 0..(n - 1) |-> g]

\* ------------------------------------------------------------ fill kernel
\* fill<T>(v, value, n) of one unit; v is the array the pointer is into and
\* off the pointer's offset in it.
fill_inclusive(v, off, value, n, tid) ==
    IF tid <= n THEN Store(v, off + tid, value) ELSE v

fill(v, off, value, n, tid) ==
    IF tid < n THEN Store(v, off + tid, value) ELSE v

\* fill_gpu: grid_dim = n/block_dim + (n%block_dim ? 1 : 0)
fill_grid_dim(n) ==
    (n \div FillBlockDim) + (IF n % FillBlockDim # 0 THEN 1 ELSE 0)

\* the units of a fill launch: tid = threadIdx.x + blockDim.x*blockIdx.x
fill_units(n) == 0..(fill_grid_dim(n) * FillBlockDim - 1)

\* the units lo..hi-1 of fill<<<grid_dim, block_dim>>>(v, value, n), one after
\* the other.  The range is halved to keep the evaluation shallow, and the
\* comparison of the domains (a fill never changes them) makes the evaluator
\* finish the first half before it starts the second.
Mid(lo, hi) == (lo + hi) \div 2

RECURSIVE fill_launch(_, _, _, _, _, _)
fill_launch(v, off, value, n, lo, hi) ==
    IF hi <= lo THEN v
    ELSE IF hi = lo + 1 THEN fill(v, off, value, n, lo)
    ELSE LET w == fill_launch(v, off, value, n, lo, Mid(lo, hi))
         IN  IF DOMAIN w = DOMAIN v
             THEN fill_launch(w, off, value, n, Mid(lo, hi), hi)
             ELSE w

fill_gpu(v, off, value, n) ==
    fill_launch(v, off, value, n, 0, fill_grid_dim(n) * FillBlockDim)


\* -------------------------------------------------------- stencil kernels
\* what a load outside its array yields (the caller records the access), and
\* what the pinned host array holds before the copy
Stray == 5 * One

Load(m, i) == IF i \in DOMAIN m THEN m[i] ELSE Stray

\* auto i = threadIdx.x + blockIdx.x*blockDim.x;   (lines 23, 41)
unit_i(tx, bx) == tx + bx * block_dim.x

\* auto j = threadIdx.y + blockIdx.y*blockDim.y;   (lines 24, 42)
unit_j(ty, by) == ty + by * block_dim.y

\* c + dt * (-4.*c + n + s + w + e)   (lines 30..32 and 67..69)
euler_unscaled(c, n, s, w, e) == c + ((0 - 4) * c + n + s + w + e)

euler(c, n, s, w, e) == c + (DtNum * ((0 - 4) * c + n + s + w + e)) \div DtDen

NoEffect(dst) == [dst |-> dst, rd |-> {}, wr |-> {}]

\* diffusion(x0, x1, nx, ny, dt) of the unit at (i, j): the destination array
\* it leaves, the global indices it reads and the ones it writes.
diffusion_wide(src, dst, nxi, nyi, i, j) ==
    IF i <= nxi /\ j <= nyi
    THEN LET width == nxi + 2
             pos == (i + 1) + (j + 1) * width
         IN  [dst |-> Store(dst, pos,
                        euler(Load(src, pos), Load(src, pos - width),
                              Load(src, pos + width), Load(src, pos - 1),
                              Load(src, pos + 1))),
              rd |-> {pos, pos - width, pos + width, pos - 1, pos + 1},
              wr |-> {pos}]
    ELSE NoEffect(dst)

diffusion(src, dst, nxi, nyi, i, j) ==
    IF i < nxi /\ j < nyi
    THEN LET width == nxi + 2
             pos == (i + 1) + (j + 1) * width
         IN  [dst |-> Store(dst, pos,
                        euler(Load(src, pos), Load(src, pos - width),
                              Load(src, pos + width), Load(src, pos - 1),
                              Load(src, pos + 1))),
              rd |-> {pos, pos - width, pos + width, pos - 1, pos + 1},
              wr |-> {pos}]
    ELSE NoEffect(dst)

\* a launch asking for the block's cells without the halo ring
shared_size_no_halo == block_dim.x * block_dim.y * SizeofDouble

\* auto shared_size = (block_dim.x+2)*(block_dim.y+2)*sizeof(double) (line 122)
shared_size == (block_dim.x + 2) * (block_dim.y + 2) * SizeofDouble

\* extern __shared__ double buffer[]: as many doubles as the launch asked
\* bytes for, each cell with a mark telling whether the running block has
\* stored to it.
shared_cells == shared_size \div SizeofDouble

FreshTile(g) == [k \in 0..(shared_cells - 1) |-> [val |-> g, w |-> FALSE]]

TStore(buf, k, v) ==
    IF k \in DOMAIN buf THEN [buf EXCEPT ![k] = [val |-> v, w |-> TRUE]] ELSE buf

TLoad(buf, k) == IF k \in DOMAIN buf THEN buf[k].val ELSE Stray

\* if(i<nx && j<ny) of diffusion_shared (line 44)
diffusion_shared_guard(nxi, nyi, i, j) == i < nxi /\ j < nyi

\* the staging phase with shared_pos taken without the halo's offset of one
diffusion_shared_stage_unshifted(buf, src, nxi, tx, ty, bx, by) ==
    LET i == unit_i(tx, bx)
        j == unit_j(ty, by)
        width == nxi + 2
        shared_width == block_dim.x + 2
        pos == (i + 1) + (j + 1) * width
        shared_pos == tx + ty * shared_width
        west == tx = 0
        east == tx = block_dim.x - 1
        north == ty = 0
        south == ty = block_dim.y - 1
        b0 == TStore(buf, shared_pos, Load(src, pos))
        b1 == IF west THEN TStore(b0, shared_pos - 1, Load(src, pos - 1)) ELSE b0
        b2 == IF east THEN TStore(b1, shared_pos + 1, Load(src, pos + 1)) ELSE b1
        b3 == IF north
              THEN TStore(b2, shared_pos - shared_width, Load(src, pos - width))
              ELSE b2
        b4 == IF south
              THEN TStore(b3, shared_pos + shared_width, Load(src, pos + width))
              ELSE b3
    IN  [buffer |-> b4,
         rd |-> {pos} \cup (IF west THEN {pos - 1} ELSE {})
                      \cup (IF east THEN {pos + 1} ELSE {})
                      \cup (IF north THEN {pos - width} ELSE {})
                      \cup (IF south THEN {pos + width} ELSE {}),
         swr |-> {shared_pos} \cup (IF west THEN {shared_pos - 1} ELSE {})
                      \cup (IF east THEN {shared_pos + 1} ELSE {})
                      \cup (IF north THEN {shared_pos - shared_width} ELSE {})
                      \cup (IF south THEN {shared_pos + shared_width} ELSE {})]

\* lines 45..63 of the unit (tx, ty) of block (bx, by): the staging buffer it
\* leaves, the global indices it reads, the staging indices it writes.
diffusion_shared_stage(buf, src, nxi, tx, ty, bx, by) ==
    LET i == unit_i(tx, bx)
        j == unit_j(ty, by)
        width == nxi + 2
        shared_width == block_dim.x + 2
        pos == (i + 1) + (j + 1) * width
        shared_pos == (tx + 1) + (ty + 1) * shared_width
        west == tx = 0
        east == tx = block_dim.x - 1
        north == ty = 0
        south == ty = block_dim.y - 1
        b0 == TStore(buf, shared_pos, Load(src, pos))
        b1 == IF west THEN TStore(b0, shared_pos - 1, Load(src, pos - 1)) ELSE b0
        b2 == IF east THEN TStore(b1, shared_pos + 1, Load(src, pos + 1)) ELSE b1
        b3 == IF north
              THEN TStore(b2, shared_pos - shared_width, Load(src, pos - width))
              ELSE b2
        b4 == IF south
              THEN TStore(b3, shared_pos + shared_width, Load(src, pos + width))
              ELSE b3
    IN  [buffer |-> b4,
         rd |-> {pos} \cup (IF west THEN {pos - 1} ELSE {})
                      \cup (IF east THEN {pos + 1} ELSE {})
                      \cup (IF north THEN {pos - width} ELSE {})
                      \cup (IF south THEN {pos + width} ELSE {}),
         swr |-> {shared_pos} \cup (IF west THEN {shared_pos - 1} ELSE {})
                      \cup (IF east THEN {shared_pos + 1} ELSE {})
                      \cup (IF north THEN {shared_pos - shared_width} ELSE {})
                      \cup (IF south THEN {shared_pos + shared_width} ELSE {})]

\* lines 67..69 of the same unit: the destination array it leaves, the
\* staging indices it reads (each with the global index it stands for) and
\* the global index it writes.
diffusion_shared_compute(buf, dst, nxi, tx, ty, bx, by) ==
    LET i == unit_i(tx, bx)
        j == unit_j(ty, by)
        width == nxi + 2
        shared_width == block_dim.x + 2
        pos == (i + 1) + (j + 1) * width
        shared_pos == (tx + 1) + (ty + 1) * shared_width
    IN  [dst |-> Store(dst, pos,
                   euler(TLoad(buf, shared_pos),
                         TLoad(buf, shared_pos - shared_width),
                         TLoad(buf, shared_pos + shared_width),
                         TLoad(buf, shared_pos - 1),
                         TLoad(buf, shared_pos + 1))),
         srd |-> {<<shared_pos, pos>>,
                  <<shared_pos - shared_width, pos - width>>,
                  <<shared_pos + shared_width, pos + width>>,
                  <<shared_pos - 1, pos - 1>>,
                  <<shared_pos + 1, pos + 1>>},
         wr |-> {pos}]

\* ------------------------------------------------------------------ state
VARIABLES
    pow,          \* main: first argument, the interior height is 2^pow
    nsteps,       \* main: second argument
    use_shared,   \* main: third argument
    shared_limit, \* the target's staging capacity per block, in bytes
    pc,           \* main: the statement the host is at
    step,         \* main: the loop counter
    x0, x1,       \* main: the device buffer each pointer names
    x_host,       \* main: the pinned host array
    last_error,   \* the runtime's error state; main never reads it
    mem,          \* the two device arrays
    queue,        \* the default stream: operations issued and not yet begun
    recorded,     \* the events the device has reached
    cur,          \* the stencil launch the device is executing
    blocks_done,  \* the blocks of cur that have retired
    blk,          \* the resident block of cur
    tpc,          \* where each unit of the resident block is
    buffer,       \* the staging buffer of the resident block
    wcount,       \* history: stores of the running or last stencil launch, per index
    oob,          \* history: some access fell outside its array
    bad_read,     \* history: a compute phase read a staging cell that was not
                  \* stored to by its block or that differs from its source cell
    completed,    \* history: stencil launches the device has finished
    ft,           \* a fill launch on its own (SpecFill)
    wd            \* main's and the kernels' integer arithmetic on its own
                  \* (SpecWidth)

vars == <<pow, nsteps, use_shared, shared_limit, pc, step, x0, x1, x_host,
          last_error, mem, queue, recorded, cur, blocks_done, blk, tpc, buffer,
          wcount, oob, bad_read, completed, ft, wd>>

hostvars == <<pow, nsteps, use_shared, shared_limit, pc, step, x0, x1, x_host,
              last_error>>

\* size_t nx = 128+2 (line 83): the padded width, 8 blocks of 16 scaled to
\* 2 blocks of block_dim.x
nx == 2 * block_dim.x + 2

\* size_t ny = (1 << pow)+2 (line 84)
ny == 2 ^ pow + 2

\* auto buffer_size = nx*ny (line 94)
buffer_size == nx * ny

\* the launch grid rounded down to whole blocks
grid_dim_floor == [x |-> (nx - 2) \div block_dim.x,
                   y |-> (ny - 2) \div block_dim.y]

\* dim3 grid_dim(...) (lines 114..117)
grid_dim == [x |-> (nx - 2 + block_dim.x - 1) \div block_dim.x,
             y |-> (ny - 2 + block_dim.y - 1) \div block_dim.y]

Blocks == (0..(grid_dim.x - 1)) \X (0..(grid_dim.y - 1))

Units == (0..(block_dim.x - 1)) \X (0..(block_dim.y - 1))

\* --------------------------------------------------- stream operations
FillOp(b, off, value, n) ==
    [op |-> "fill", dst |-> b, src |-> b, off |-> off, value |-> value, n |-> n]

\* a launch handed the same array twice
StencilOp_in_place(kernel, s, d) ==
    [op |-> kernel, dst |-> s, src |-> s, off |-> 0, value |-> 0, n |-> 0]

StencilOp(kernel, s, d) ==
    [op |-> kernel, dst |-> d, src |-> s, off |-> 0, value |-> 0, n |-> 0]

EventOp(id) ==
    [op |-> id, dst |-> "A", src |-> "A", off |-> 0, value |-> 0, n |-> 0]

NoOp == [op |-> "none", dst |-> "A", src |-> "A", off |-> 0, value |-> 0, n |-> 0]

Events == {"start_event", "stop_event"}

Stencils == {"diffusion", "diffusion_shared"}

NoBlock == <<0 - 1, 0 - 1>>

IdleUnits == [u \in Units |-> "idle"]

IdleTile == FreshTile(Zero)

FtIdle == [v |-> <<>>, v0 |-> <<>>, value |-> Zero, n |-> 0, pending |-> {}]

WdIdle == [at |-> "none", p |-> 0, ny |-> 0, buffer_size |-> 0, n |-> 0,
           grid |-> 0, covered |-> 0, i |-> 0, j |-> 0, pos |-> 0]

\* ------------------------------------------------------------------- Init
\* main up to line 97: the arguments are read, the arrays are allocated and
\* hold what the allocator left in them (the host array, which is only ever
\* written, one fixed pattern).  The staging capacity is a property of the
\* target; it is varied only for the runs that ask for staging memory.
Init ==
    /\ pow \in 0..MaxPow
    /\ nsteps \in 0..MaxSteps
    /\ use_shared \in BOOLEAN
    /\ shared_limit \in (IF use_shared THEN SharedLimits ELSE {SharedMemPerBlock})
    /\ pc = "zero_x0"
    /\ step = 0
    /\ x0 = "A"
    /\ x1 = "B"
    /\ x_host = Uniform(buffer_size, Stray)
    /\ \E g \in Garbage : mem = [b \in Buffers |-> Uniform(buffer_size, g)]
    /\ last_error = "cudaSuccess"
    /\ queue = <<>>
    /\ recorded = {}
    /\ cur = NoOp
    /\ blocks_done = {}
    /\ blk = NoBlock
    /\ tpc = IdleUnits
    /\ buffer = IdleTile
    /\ wcount = Uniform(buffer_size, 0)
    /\ oob = FALSE
    /\ bad_read = FALSE
    /\ completed = 0
    /\ ft = FtIdle
    /\ wd = WdIdle

\* ------------------------------------------------------------------- host
\* lines 100..107: the six fill_gpu calls, in program order
main_fills_zero_last ==
    << [at |-> "zero_x0", op |-> FillOp(x0, 0, One, nx)],
       [at |-> "zero_x1", op |-> FillOp(x1, 0, One, nx)],
       [at |-> "row0_x0", op |-> FillOp(x0, nx * (ny - 1), One, nx)],
       [at |-> "row0_x1", op |-> FillOp(x1, nx * (ny - 1), One, nx)],
       [at |-> "rowN_x0", op |-> FillOp(x0, 0, Zero, buffer_size)],
       [at |-> "rowN_x1", op |-> FillOp(x1, 0, Zero, buffer_size)] >>

main_fills ==
    << [at |-> "zero_x0", op |-> FillOp(x0, 0, Zero, buffer_size)],
       [at |-> "zero_x1", op |-> FillOp(x1, 0, Zero, buffer_size)],
       [at |-> "row0_x0", op |-> FillOp(x0, 0, One, nx)],
       [at |-> "row0_x1", op |-> FillOp(x1, 0, One, nx)],
       [at |-> "rowN_x0", op |-> FillOp(x0, nx * (ny - 1), One, nx)],
       [at |-> "rowN_x1", op |-> FillOp(x1, nx * (ny - 1), One, nx)] >>

\* one fill_gpu call: the launch is issued and main goes on
HostFill ==
    /\ \E k \in 1..Len(main_fills) :
          /\ pc = main_fills[k].at
          /\ queue' = Append(queue, main_fills[k].op)
          /\ pc' = IF k < Len(main_fills) THEN main_fills[k + 1].at
                   ELSE "start_event"
    /\ UNCHANGED <<pow, nsteps, use_shared, shared_limit, step, x0, x1, x_host,
                   last_error, mem, recorded, cur, blocks_done, blk, tpc,
                   buffer, wcount, oob, bad_read, completed, ft, wd>>

\* line 111: auto start_event = stream.enqueue_event()
HostStartEvent ==
    /\ pc = "start_event"
    /\ queue' = Append(queue, EventOp("start_event"))
    /\ pc' = "loop"
    /\ UNCHANGED <<pow, nsteps, use_shared, shared_limit, step, x0, x1, x_host,
                   last_error, mem, recorded, cur, blocks_done, blk, tpc,
                   buffer, wcount, oob, bad_read, completed, ft, wd>>

\* lines 120..132, use_shared: the launch asks for shared_size bytes of
\* staging memory; one the target cannot give is refused, nothing is
\* enqueued and the error stays with the runtime.  Then std::swap(x0, x1).
HostStepShared ==
    /\ pc = "loop"
    /\ step < nsteps
    /\ use_shared
    /\ IF shared_size <= shared_limit
       THEN /\ queue' = Append(queue, StencilOp("diffusion_shared", x0, x1))
            /\ last_error' = last_error
       ELSE /\ queue' = queue
            /\ last_error' = "cudaErrorInvalidValue"
    /\ x0' = x1
    /\ x1' = x0
    /\ step' = step + 1
    /\ UNCHANGED <<pow, nsteps, use_shared, shared_limit, pc, x_host, mem,
                   recorded, cur, blocks_done, blk, tpc, buffer, wcount, oob,
                   bad_read, completed, ft, wd>>

\* the loop body without the ++step of line 120
HostStepNaive_stuck ==
    /\ pc = "loop"
    /\ step < nsteps
    /\ ~use_shared
    /\ queue' = Append(queue, StencilOp("diffusion", x0, x1))
    /\ x0' = x1
    /\ x1' = x0
    /\ UNCHANGED <<pow, nsteps, use_shared, shared_limit, pc, step, x_host,
                   last_error, mem, recorded, cur, blocks_done, blk, tpc,
                   buffer, wcount, oob, bad_read, completed, ft, wd>>

\* lines 120..132, otherwise: diffusion<<<grid_dim, block_dim>>>, then the swap
HostStepNaive ==
    /\ pc = "loop"
    /\ step < nsteps
    /\ ~use_shared
    /\ queue' = Append(queue, StencilOp("diffusion", x0, x1))
    /\ x0' = x1
    /\ x1' = x0
    /\ step' = step + 1
    /\ UNCHANGED <<pow, nsteps, use_shared, shared_limit, pc, x_host,
                   last_error, mem, recorded, cur, blocks_done, blk, tpc,
                   buffer, wcount, oob, bad_read, completed, ft, wd>>

\* line 133, reached when step < nsteps fails
HostStopEvent ==
    /\ pc = "loop"
    /\ ~(step < nsteps)
    /\ queue' = Append(queue, EventOp("stop_event"))
    /\ pc' = "wait"
    /\ UNCHANGED <<pow, nsteps, use_shared, shared_limit, step, x0, x1, x_host,
                   last_error, mem, recorded, cur, blocks_done, blk, tpc,
                   buffer, wcount, oob, bad_read, completed, ft, wd>>

\* line 134: stop_event.wait() blocks until the device has reached the event
wait_done == "stop_event" \in recorded

HostWait ==
    /\ pc = "wait"
    /\ wait_done
    /\ pc' = "copy"
    /\ UNCHANGED <<pow, nsteps, use_shared, shared_limit, step, x0, x1, x_host,
                   last_error, mem, queue, recorded, cur, blocks_done, blk, tpc,
                   buffer, wcount, oob, bad_read, completed, ft, wd>>

\* line 136: copy_to_host<double>(x0, x_host, buffer_size)
copy_source == x0

HostCopy ==
    /\ pc = "copy"
    /\ x_host' = mem[copy_source]
    /\ pc' = "done"
    /\ UNCHANGED <<pow, nsteps, use_shared, shared_limit, step, x0, x1,
                   last_error, mem, queue, recorded, cur, blocks_done, blk, tpc,
                   buffer, wcount, oob, bad_read, completed, ft, wd>>

\* ----------------------------------------------------------------- device
\* an operation begun without regard to the launch that executes
Idle_overlap == queue # <<>>

\* the device takes up the stream's next operation when the one before is over
Idle == cur = NoOp /\ queue # <<>>

\* the array m followed by the memory behind it, and whether a launch that
\* left r of it stored behind the array
Padded(m) ==
    [k \in 0..(buffer_size + FillBlockDim) |->
        IF k \in DOMAIN m THEN m[k] ELSE Stray]

Overrun(r) == \E k \in DOMAIN r : k >= buffer_size /\ r[k] # Stray

Outside(idx) == \E k \in idx : k \notin 0..(buffer_size - 1)

Counted(wr) == [k \in DOMAIN wcount |-> wcount[k] + (IF k \in wr THEN 1 ELSE 0)]

\* the operation issued last
stream_last == queue[Len(queue)]

\* the stream's next operation is the one issued first
stream_next == Head(queue)

stream_rest == Tail(queue)

\* a fill launch (lines 150..166), begun when everything issued before it is done
DevFill ==
    /\ Idle
    /\ stream_next.op = "fill"
    /\ LET f == stream_next
       IN  /\ mem' = [mem EXCEPT ![f.dst] =
                              fill_gpu(mem[f.dst], f.off, f.value, f.n)]
           /\ oob' = (oob \/ Overrun(fill_gpu(Padded(mem[f.dst]), f.off,
                                               f.value, f.n)))
    /\ queue' = stream_rest
    /\ UNCHANGED <<hostvars, recorded, cur, blocks_done, blk, tpc, buffer,
                   wcount, bad_read, completed, ft, wd>>

\* an event is reached when everything issued before it is done
DevEvent ==
    /\ Idle
    /\ stream_next.op \in Events
    /\ recorded' = recorded \cup {stream_next.op}
    /\ queue' = stream_rest
    /\ UNCHANGED <<hostvars, mem, cur, blocks_done, blk, tpc, buffer, wcount,
                   oob, bad_read, completed, ft, wd>>

\* a stencil launch begins
KernelBegin ==
    /\ Idle
    /\ stream_next.op \in Stencils
    /\ cur' = stream_next
    /\ queue' = stream_rest
    /\ blocks_done' = {}
    /\ wcount' = Uniform(buffer_size, 0)
    /\ UNCHANGED <<hostvars, mem, recorded, blk, tpc, buffer, oob, bad_read,
                   completed, ft, wd>>

\* a block of the launch becomes resident; its staging buffer holds whatever
\* the multiprocessor's memory held
BlockBegin ==
    /\ cur.op \in Stencils
    /\ blk = NoBlock
    /\ \E b \in Blocks \ blocks_done : blk' = b
    /\ tpc' = [u \in Units |-> "run"]
    /\ \E g \in Garbage :
          buffer' = IF cur.op = "diffusion_shared" THEN FreshTile(g) ELSE IdleTile
    /\ UNCHANGED <<hostvars, mem, queue, recorded, cur, blocks_done, wcount,
                   oob, bad_read, completed, ft, wd>>

\* one unit of the naive kernel (lines 21..35)
UnitDiffusion ==
    /\ cur.op = "diffusion"
    /\ \E u \in Units :
          /\ tpc[u] = "run"
          /\ LET r == diffusion(mem[cur.src], mem[cur.dst], nx - 2, ny - 2,
                                unit_i(u[1], blk[1]), unit_j(u[2], blk[2]))
             IN  /\ mem' = [mem EXCEPT ![cur.dst] = r.dst]
                 /\ wcount' = Counted(r.wr)
                 /\ oob' = (oob \/ Outside(r.rd \cup r.wr))
          /\ tpc' = [tpc EXCEPT ![u] = "done"]
    /\ UNCHANGED <<hostvars, queue, recorded, cur, blocks_done, blk, buffer,
                   bad_read, completed, ft, wd>>

\* a unit of the tiled kernel whose guard (line 44) fails returns at once
UnitSkip ==
    /\ cur.op = "diffusion_shared"
    /\ \E u \in Units :
          /\ tpc[u] = "run"
          /\ ~diffusion_shared_guard(nx - 2, ny - 2, unit_i(u[1], blk[1]),
                                     unit_j(u[2], blk[2]))
          /\ tpc' = [tpc EXCEPT ![u] = "skip"]
    /\ UNCHANGED <<hostvars, mem, queue, recorded, cur, blocks_done, blk,
                   buffer, wcount, oob, bad_read, completed, ft, wd>>

\* a unit of the tiled kernel inside the guard: lines 45..63, up to the barrier
UnitStage ==
    /\ cur.op = "diffusion_shared"
    /\ \E u \in Units :
          /\ tpc[u] = "run"
          /\ diffusion_shared_guard(nx - 2, ny - 2, unit_i(u[1], blk[1]),
                                    unit_j(u[2], blk[2]))
          /\ LET r == diffusion_shared_stage(buffer, mem[cur.src], nx - 2,
                                             u[1], u[2], blk[1], blk[2])
             IN  /\ buffer' = r.buffer
                 /\ oob' = (oob \/ Outside(r.rd)
                                \/ \E k \in r.swr : k \notin DOMAIN buffer)
          /\ tpc' = [tpc EXCEPT ![u] = "sync"]
    /\ UNCHANGED <<hostvars, mem, queue, recorded, cur, blocks_done, blk,
                   wcount, bad_read, completed, ft, wd>>

\* __syncthreads() (line 65): a unit at the barrier goes on when no unit of
\* its block is still on its way; units that have returned are not waited for
barrier_open == \A v \in Units : tpc[v] # "run"

\* the same unit after the barrier: lines 67..69
UnitCompute ==
    /\ cur.op = "diffusion_shared"
    /\ barrier_open
    /\ \E u \in Units :
          /\ tpc[u] = "sync"
          /\ LET r == diffusion_shared_compute(buffer, mem[cur.dst], nx - 2,
                                               u[1], u[2], blk[1], blk[2])
             IN  /\ mem' = [mem EXCEPT ![cur.dst] = r.dst]
                 /\ wcount' = Counted(r.wr)
                 /\ oob' = (oob \/ Outside(r.wr)
                                \/ \E c \in r.srd : c[1] \notin DOMAIN buffer)
                 /\ bad_read' =
                       (bad_read \/ \E c \in r.srd :
                           \/ c[1] \notin DOMAIN buffer
                           \/ ~buffer[c[1]].w
                           \/ buffer[c[1]].val # Load(mem[cur.src], c[2]))
          /\ tpc' = [tpc EXCEPT ![u] = "done"]
    /\ UNCHANGED <<hostvars, queue, recorded, cur, blocks_done, blk, buffer,
                   completed, ft, wd>>

\* every unit of the resident block has returned
BlockEnd ==
    /\ blk # NoBlock
    /\ \A u \in Units : tpc[u] \in {"done", "skip"}
    /\ blocks_done' = blocks_done \cup {blk}
    /\ blk' = NoBlock
    /\ tpc' = IdleUnits
    /\ buffer' = IdleTile
    /\ UNCHANGED <<hostvars, mem, queue, recorded, cur, wcount, oob, bad_read,
                   completed, ft, wd>>

\* every block of the launch has retired
KernelEnd ==
    /\ cur.op \in Stencils
    /\ blk = NoBlock
    /\ blocks_done = Blocks
    /\ cur' = NoOp
    /\ completed' = completed + 1
    /\ UNCHANGED <<hostvars, mem, queue, recorded, blocks_done, blk, tpc,
                   buffer, wcount, oob, bad_read, ft, wd>>

Next ==
    \/ HostFill
    \/ HostStartEvent
    \/ HostStepShared
    \/ HostStepNaive
    \/ HostStopEvent
    \/ HostWait
    \/ HostCopy
    \/ DevFill
    \/ DevEvent
    \/ KernelBegin
    \/ BlockBegin
    \/ UnitDiffusion
    \/ UnitSkip
    \/ UnitStage
    \/ UnitCompute
    \/ BlockEnd
    \/ KernelEnd

Spec == Init /\ [][Next]_vars

\* ------------------------------------------------- a fill launch on its own
\* fill_gpu(v, value, n) for any n in 0..MaxFillN on an array long enough to
\* hold every launched unit's index, its units in any interleaving.
FillArrayLen == MaxFillN + FillBlockDim

InitFill ==
    /\ pow = 0
    /\ nsteps = 0
    /\ use_shared = FALSE
    /\ shared_limit = shared_size
    /\ pc = "done"
    /\ step = 0
    /\ x0 = "A"
    /\ x1 = "B"
    /\ x_host = Uniform(buffer_size, Zero)
    /\ mem = [b \in Buffers |-> Uniform(buffer_size, Zero)]
    /\ last_error = "cudaSuccess"
    /\ queue = <<>>
    /\ recorded = {}
    /\ cur = NoOp
    /\ blocks_done = {}
    /\ blk = NoBlock
    /\ tpc = IdleUnits
    /\ buffer = IdleTile
    /\ wcount = Uniform(buffer_size, 0)
    /\ oob = FALSE
    /\ bad_read = FALSE
    /\ completed = 0
    /\ \E n \in 0..MaxFillN, value \in {Zero, One}, g \in Garbage :
          ft = [v |-> Uniform(FillArrayLen, g), v0 |-> Uniform(FillArrayLen, g),
                value |-> value, n |-> n, pending |-> fill_units(n)]
    /\ wd = WdIdle

\* one unit of fill<<<grid_dim, block_dim>>>(v, value, n)
FillUnit ==
    /\ \E tid \in ft.pending :
          ft' = [ft EXCEPT !.v = fill(ft.v, 0, ft.value, ft.n, tid),
                           !.pending = @ \ {tid}]
    /\ UNCHANGED <<hostvars, mem, queue, recorded, cur, blocks_done, blk, tpc,
                   buffer, wcount, oob, bad_read, completed, wd>>

NextFill == FillUnit

SpecFill == InitFill /\ [][NextFill]_vars

\* ------------------------------------------ integer arithmetic on its own
\* main's computation of ny, buffer_size and the fill's n, and a unit's pos,
\* for any pow in 0..MaxWidePow, in the integer types of the source.
IntMod == 2 ^ IntBits

SizeMod == IntMod * IntMod

\* conversion to unsigned int, to int, and to size_t or unsigned long
to_unsigned(x) == x % IntMod

to_int(x) ==
    LET u == x % IntMod IN IF u >= IntMod \div 2 THEN u - IntMod ELSE u

to_size_t(x) == x % SizeMod

Min(a, b) == IF a <= b THEN a ELSE b

\* 1 << pow (line 84): an int shifted by a size_t.  A count of the width or
\* more is undefined; the builds take the count modulo the width or yield 0.
shift_left(p) ==
    IF p < IntBits THEN {to_int(2 ^ p)} ELSE {to_int(2 ^ (p % IntBits)), 0}

InitWidth ==
    /\ pow = 0
    /\ nsteps = 0
    /\ use_shared = FALSE
    /\ shared_limit = shared_size
    /\ pc = "done"
    /\ step = 0
    /\ x0 = "A"
    /\ x1 = "B"
    /\ x_host = Uniform(buffer_size, Zero)
    /\ mem = [b \in Buffers |-> Uniform(buffer_size, Zero)]
    /\ last_error = "cudaSuccess"
    /\ queue = <<>>
    /\ recorded = {}
    /\ cur = NoOp
    /\ blocks_done = {}
    /\ blk = NoBlock
    /\ tpc = IdleUnits
    /\ buffer = IdleTile
    /\ wcount = Uniform(buffer_size, 0)
    /\ oob = FALSE
    /\ bad_read = FALSE
    /\ completed = 0
    /\ ft = FtIdle
    /\ \E p \in 0..MaxWidePow : wd = [WdIdle EXCEPT !.at = "ny", !.p = p]

WidthUnchanged ==
    UNCHANGED <<hostvars, mem, queue, recorded, cur, blocks_done, blk, tpc,
                buffer, wcount, oob, bad_read, completed, ft>>

\* size_t ny = (1 << pow)+2 (line 84): int arithmetic, then the conversion
WidthNy ==
    /\ wd.at = "ny"
    /\ \E one \in shift_left(wd.p) :
          wd' = [wd EXCEPT !.at = "buffer_size", !.ny = to_size_t(one + 2)]
    /\ WidthUnchanged

\* auto buffer_size = nx*ny (line 94), in size_t
WidthBufferSize ==
    /\ wd.at = "buffer_size"
    /\ wd' = [wd EXCEPT !.at = "fill", !.buffer_size = to_size_t(nx * wd.ny)]
    /\ WidthUnchanged

\* fill_gpu(x0, 0., buffer_size) (lines 100, 160..166): the count becomes the
\* int n, grid_dim is computed in unsigned long and handed to the launch as
\* an unsigned int, and the units with tid < n store
WidthFill ==
    /\ wd.at = "fill"
    /\ LET n == to_int(wd.buffer_size)
           grid == to_unsigned(fill_grid_dim(to_size_t(n)))
       IN  wd' = [wd EXCEPT !.at = "pos", !.n = n, !.grid = grid,
                            !.covered = IF n > 0
                                        THEN Min(n, grid * FillBlockDim)
                                        ELSE 0]
    /\ WidthUnchanged

\* auto pos = (i+1) + (j+1)*width (lines 27, 28, 45, 48) of a unit in the
\* first or the last row of the interior, in unsigned int
WidthPos ==
    /\ wd.at = "pos"
    /\ \E i \in 0..(nx - 3), j \in {0, Min(2 ^ wd.p, IntMod) - 1} :
          LET width == to_int(nx - 2) + 2
          IN  wd' = [wd EXCEPT !.at = "end", !.i = i, !.j = j,
                        !.pos = to_unsigned((i + 1) + (j + 1) * width)]
    /\ WidthUnchanged

NextWidth ==
    \/ WidthNy
    \/ WidthBufferSize
    \/ WidthFill
    \/ WidthPos

SpecWidth == InitWidth /\ [][NextWidth]_vars

\* ------------------------------------------------------- grid geometry
Row(k) == k \div nx

Col(k) == k % nx

Cells == 0..(buffer_size - 1)

NorthSouth(k) == Row(k) \in {0, ny - 1}

EastWest(k) == Col(k) \in {0, nx - 1}

Halo(k) == NorthSouth(k) \/ EastWest(k)

Interior == {k \in Cells : ~Halo(k)}

\* the grid section 3 of the specification describes: rows 0 and ny+1 are 1,
\* every other cell is 0
InitGrid == [k \in Cells |-> IF NorthSouth(k) THEN One ELSE Zero]

\* the six fills of lines 100..107 have been issued and executed
FillsDone ==
    /\ \A k \in 1..Len(main_fills) : pc # main_fills[k].at
    /\ \A k \in 1..Len(queue) : queue[k].op # "fill"

\* the launch of the tiled kernel is one the target accepts
TileFits == shared_size <= shared_limit

\* the 5-point update of the claims, applied to every interior cell of g
Update(g) ==
    [k \in DOMAIN g |->
        IF Halo(k) THEN g[k]
        ELSE g[k] + (DtNum * ((0 - 4) * g[k] + g[k - nx] + g[k + nx]
                              + g[k - 1] + g[k + 1])) \div DtDen]

RECURSIVE Iterate(_, _)
Iterate(g, k) == IF k = 0 THEN g ELSE Iterate(Update(g), k - 1)

\* the naive kernel's launch as a whole: its units one after the other
LaunchWidth == grid_dim.x * block_dim.x

LaunchHeight == grid_dim.y * block_dim.y

RECURSIVE naive_units(_, _, _, _)
naive_units(src, dst, lo, hi) ==
    IF hi <= lo THEN dst
    ELSE IF hi = lo + 1
         THEN diffusion(src, dst, nx - 2, ny - 2,
                        lo % LaunchWidth, lo \div LaunchWidth).dst
    ELSE LET w == naive_units(src, dst, lo, Mid(lo, hi))
         IN  IF DOMAIN w = DOMAIN dst
             THEN naive_units(src, w, Mid(lo, hi), hi)
             ELSE w

naive_launch(src, dst) == naive_units(src, dst, 0, LaunchWidth * LaunchHeight)

\* the current buffer after k naive launches and swaps from (a, b)
RECURSIVE naive_run(_, _, _)
naive_run(a, b, k) ==
    IF k = 0 THEN a ELSE naive_run(naive_launch(a, b), a, k - 1)

\* ================================================================= claims

\* C1: no stencil unit writes a halo cell (row 0, row ny+1, column 0, column
\* nx+1) of either buffer, for every nsteps, every height 2^pow and either
\* strategy; once the fills are done both buffers keep rows 0 and ny+1 equal
\* to 1 and the east and west halo cells of the other rows equal to 0, and
\* the north and south rows of the grid copied out are 1.
C1_HaloUntouched ==
    /\ \A k \in Cells : wcount[k] > 0 => ~Halo(k)
    /\ FillsDone =>
          \A b \in Buffers : \A k \in Cells :
             /\ NorthSouth(k) => mem[b][k] = One
             /\ (EastWest(k) /\ ~NorthSouth(k)) => mem[b][k] = Zero
    /\ pc = "done" => \A k \in Cells : NorthSouth(k) => x_host[k] = One

\* a run of the tiled kernel on a domain lower than a block has finished at
\* least one step and copied the grid out
C1_Witness ==
    /\ pc = "done"
    /\ use_shared
    /\ pow = 0
    /\ completed >= 1
    /\ \E k \in Interior : wcount[k] > 0

\* C2: strategy equivalence.  A run of the tiled kernel whose launches the
\* target accepted copies out the grid that nsteps launches of the naive
\* kernel produce from the initialized buffers, for every height 2^pow and
\* every interleaving of the units.
C2_StrategyEquivalence ==
    (pc = "done" /\ use_shared /\ TileFits)
        => x_host = naive_run(InitGrid, InitGrid, nsteps)

\* C3: the grid copied to the host is the buffer the last issued stencil
\* kernel wrote (the initialized one when nsteps = 0), and its interior is
\* the 5-point update applied nsteps times to the initialized grid.  Stated
\* for the runs whose launches the target accepted, naive or tiled.
C3_FinalGrid ==
    (pc = "done" /\ (use_shared => TileFits))
        => /\ x_host = mem[x0]
           /\ x0 = (IF nsteps % 2 = 0 THEN "A" ELSE "B")
           /\ \A k \in Interior : x_host[k] = Iterate(InitGrid, nsteps)[k]

\* C4: zero-step identity.  With nsteps = 0 no stencil kernel is ever issued
\* or run, and the grid copied out is the initialized grid: rows 0 and ny+1
\* are 1 and every other cell is 0.
C4_ZeroSteps ==
    nsteps = 0 =>
        /\ cur = NoOp
        /\ completed = 0
        /\ \A k \in 1..Len(queue) : queue[k].op \notin Stencils
        /\ pc = "done" => x_host = InitGrid

C4_Witness ==
    /\ nsteps = 0
    /\ pc = "done"
    /\ pow = MaxPow
    /\ x_host # Uniform(buffer_size, Zero)

\* C5: fill_gpu(v, value, n) sets exactly v[0..n-1] to value and writes no
\* element at index >= n, for every n >= 0 (a multiple of the block size or
\* not): while the launch runs no element at index >= n differs from what it
\* held before, every unit with tid < n that has run has stored value, and
\* when every unit has run v[0..n-1] is value.
C5_FillExact ==
    /\ \A k \in DOMAIN ft.v :
          /\ k >= ft.n => ft.v[k] = ft.v0[k]
          /\ (k < ft.n /\ k \notin ft.pending) => ft.v[k] = ft.value
          /\ (k < ft.n /\ k \in ft.pending) => ft.v[k] = ft.v0[k]
    /\ \A k \in 0..(ft.n - 1) : k \in DOMAIN ft.v /\ k \in fill_units(ft.n)

\* a launch whose n is no multiple of the block size has run to its end, its
\* units past n included, and changed the array
C5_Witness ==
    /\ ft.n > 0
    /\ ft.n % FillBlockDim # 0
    /\ ft.pending = {}
    /\ ft.v # ft.v0

\* C6: single-step result.  From the initialized grid with dt = 0.1 and an
\* interior of at least two rows, one step of the naive kernel leaves 0.1 in
\* every interior cell of the first and of the last interior row and 0 in
\* every interior cell with no boundary-row neighbour.
C6_SingleStep ==
    (pc = "done" /\ ~use_shared /\ nsteps = 1 /\ ny - 2 >= 2)
        => \A k \in Interior :
              x_host[k] = IF Row(k) \in {1, ny - 2}
                          THEN (DtNum * One) \div DtDen
                          ELSE Zero

\* one naive step on an interior of four rows has been copied out: rows of
\* both kinds exist
C6_Witness ==
    /\ pc = "done"
    /\ ~use_shared
    /\ nsteps = 1
    /\ completed = 1
    /\ ny - 2 = 4
    /\ \E k \in Interior : x_host[k] = Zero
    /\ \E k \in Interior : x_host[k] = (DtNum * One) \div DtDen

\* C7: discrete maximum principle.  With dt = 0.1 and the initialized grid,
\* after every step every interior cell holds a value in [0, 1], for either
\* strategy: once the fills are done no interior cell of either buffer ever
\* holds a value outside [0, 1].
C7_MaxPrinciple ==
    FillsDone =>
        \A b \in Buffers : \A k \in Interior :
            mem[b][k] >= Zero /\ mem[b][k] <= One

\* C8: when the tile of the tiled kernel exceeds the target's staging
\* capacity, the driver executes no time step, swaps no buffers, and does not
\* go on after a refused launch: it is in a fatal state.
C8_TileTooLarge ==
    (use_shared /\ ~TileFits)
        => /\ step = 0
           /\ x0 = "A"
           /\ x1 = "B"
           /\ last_error # "cudaSuccess" => pc = "fatal"

\* C9: in every launch of the tiled kernel every unit of a block reaches the
\* barrier: no unit has returned without reaching it while another unit of
\* its block waits at it.
C9_BarrierReached ==
    \A u \in Units : \A v \in Units : ~(tpc[u] = "skip" /\ tpc[v] = "sync")

\* C10: every staging cell a unit reads in the compute phase was stored to
\* in the staging phase of the same launch by a unit of the same block and
\* holds the value of the source cell it stands for.
C10_StagedReads == ~bad_read

\* --------------------------------------------------------- launch order
\* the buffer the k-th stencil launch main issues (k = 0, 1, ...) reads: x0
\* is A at the first launch and the pointers are swapped after each
IssuedSrc(k) == IF k % 2 = 0 THEN "A" ELSE "B"

Other(b) == IF b = "A" THEN "B" ELSE "A"

\* a stencil launch is executing
Running == cur.op \in Stencils

\* the stencil launches waiting in the stream before position p
StencilsAhead(p) == Cardinality({q \in 1..(p - 1) : queue[q].op \in Stencils})

\* the height of the interior is a whole number of blocks (in the source:
\* pow >= 4), the runs of the tiled kernel that stage every cell they read
WholeBlocks == (ny - 2) % block_dim.y = 0

\* C11: cross-step ordering.  The host issues every launch and swaps without
\* waiting, and the stencil launches execute in issue order, one at a time:
\* the launch that executes is the one issued after the completed ones, the
\* waiting launches follow it in issue order, units run only inside the
\* executing launch, every unit of the earlier launches has retired, and the
\* buffer the launch reads holds the finished result of the steps before it.
C11_IssueOrder ==
    /\ Running => /\ cur.src = IssuedSrc(completed)
                  /\ cur.dst = Other(cur.src)
    /\ \A p \in 1..Len(queue) :
          queue[p].op \in Stencils =>
             queue[p].src = IssuedSrc(completed + (IF Running THEN 1 ELSE 0)
                                      + StencilsAhead(p))
    /\ ~Running => (blk = NoBlock /\ tpc = IdleUnits)
    /\ (Running /\ (use_shared => WholeBlocks))
          => mem[cur.src] = Iterate(InitGrid, completed)

\* the host has left the loop without waiting while a unit of the second
\* launch has read the buffer the first launch wrote
C11_Witness ==
    /\ pc = "wait"
    /\ Running
    /\ completed = 1
    /\ \E u \in Units : tpc[u] = "done"
    /\ mem[cur.src] # InitGrid

\* ---------------------------------------------------------- double buffer
IsStencil(o) == o.op \in Stencils

\* the stencil launches issued and not yet finished, in issue order
Launches == (IF Running THEN <<cur>> ELSE <<>>) \o SelectSeq(queue, IsStencil)

\* a destination array holding something else in every cell
Blank == Uniform(buffer_size, Stray)

\* what the unit u of the resident block stores does not depend on what the
\* destination holds
WriteOnly(u) ==
    LET i == unit_i(u[1], blk[1])
        j == unit_j(u[2], blk[2])
        r == IF cur.op = "diffusion"
             THEN diffusion(mem[cur.src], mem[cur.dst], nx - 2, ny - 2, i, j)
             ELSE diffusion_shared_compute(buffer, mem[cur.dst], nx - 2,
                                           u[1], u[2], blk[1], blk[2])
        q == IF cur.op = "diffusion"
             THEN diffusion(mem[cur.src], Blank, nx - 2, ny - 2, i, j)
             ELSE diffusion_shared_compute(buffer, Blank, nx - 2,
                                           u[1], u[2], blk[1], blk[2])
    IN  /\ r.wr = q.wr
        /\ \A k \in r.wr \cap Cells : r.dst[k] = q.dst[k]

Exclusive ==
    /\ x0 # x1
    /\ \A p \in 1..Len(Launches) :
          /\ Launches[p].src # Launches[p].dst
          /\ p < Len(Launches) => /\ Launches[p + 1].src = Launches[p].dst
                                  /\ Launches[p + 1].dst = Launches[p].src
          /\ p = Len(Launches) => /\ Launches[p].dst = x0
                                  /\ Launches[p].src = x1
    /\ (Running /\ blk # NoBlock) => \A u \in Units : WriteOnly(u)

\* while a launch executes, its source array is not stored to and no array
\* but its destination changes
ReadOnlySource ==
    (Running /\ cur' = cur)
        => /\ mem'[cur.src] = mem[cur.src]
           /\ \A k \in Cells :
                 mem'[cur.dst][k] # mem[cur.dst][k] => wcount'[k] = wcount[k] + 1

\* the pointers change only in the swap that follows a launch, once per step
SwapOncePerStep ==
    /\ (x0' # x0 \/ x1' # x1 \/ step' # step)
          => /\ step' = step + 1
             /\ x0' = x1
             /\ x1' = x0
    /\ (\E o \in Stencils : queue' = Append(queue, StencilOp(o, x0, x1)))
          => step' = step + 1

\* C12: double-buffer exclusivity.  Source and destination of every stencil
\* launch are the two distinct buffers, the source of each launch is the
\* destination of the launch before it, while a launch executes its source
\* is only read and its destination only written, and the roles are
\* exchanged exactly once after each launch.
C12_DoubleBuffer ==
    /\ []Exclusive
    /\ [][ReadOnlySource /\ SwapOncePerStep]_vars

\* the second launch of a run reads B and has stored to A, while main's
\* pointers are back where they started
C12_Witness ==
    /\ Running
    /\ completed = 1
    /\ cur.src = "B"
    /\ cur.dst = "A"
    /\ x0 = "A"
    /\ \E k \in Cells : wcount[k] > 0

\* ------------------------------------------------------ one unit per cell
\* the unit u of block b lies inside the interior
Inside(b, u) ==
    unit_i(u[1], b[1]) < nx - 2 /\ unit_j(u[2], b[2]) < ny - 2

\* the linear index of the cell of that unit
PosOf(b, u) == (unit_i(u[1], b[1]) + 1) + (unit_j(u[2], b[2]) + 1) * nx

\* the units of the launch that lie inside the interior
InsideUnits == {c \in Blocks \X Units : Inside(c[1], c[2])}

\* the launch has run all its blocks
LaunchOver ==
    \/ Running /\ blk = NoBlock /\ blocks_done = Blocks
    \/ ~Running /\ completed >= 1

\* C13: in each stencil launch, naive or tiled, every interior cell of the
\* destination is written exactly once, by exactly one unit: the units
\* inside the interior and the interior cells correspond one to one (their
\* cells are all the interior cells, and they are as many), no cell is
\* stored to twice while the launch runs, every interior cell has been
\* stored to once when the launch is over, and a unit outside the interior
\* stores nothing.
C13_WrittenOnce ==
    /\ {PosOf(c[1], c[2]) : c \in InsideUnits} = Interior
    /\ Cardinality(InsideUnits) = Cardinality(Interior)
    /\ \A k \in Cells : /\ wcount[k] <= 1
                         /\ wcount[k] = 1 => k \in Interior
    /\ LaunchOver => \A k \in Interior : wcount[k] = 1
    /\ blk # NoBlock =>
          \A u \in Units :
             /\ (tpc[u] = "done" /\ Inside(blk, u)) => wcount[PosOf(blk, u)] = 1
             /\ ~Inside(blk, u) =>
                   /\ tpc[u] # "sync"
                   /\ diffusion(mem[cur.src], mem[cur.dst], nx - 2, ny - 2,
                                unit_i(u[1], blk[1]), unit_j(u[2], blk[2])).wr = {}

\* two launches on a domain lower than a block are over: units outside the
\* interior have run and every interior cell was stored to once
C13_Witness ==
    /\ pow = 0
    /\ completed = 2
    /\ ~Running
    /\ \E c \in Blocks \X Units : ~Inside(c[1], c[2])
    /\ \A k \in Interior : wcount[k] = 1

\* ------------------------------------------------------ the host's waits
\* a statement of main can be executed
HostNext ==
    \/ HostFill
    \/ HostStartEvent
    \/ HostStepShared
    \/ HostStepNaive
    \/ HostStopEvent
    \/ HostWait
    \/ HostCopy

\* the stencil launches the run enqueues in all
Accepted == IF use_shared /\ ~TileFits THEN 0 ELSE nsteps

\* C14: the driver blocks only once, on the completion marker recorded after
\* the last launch is issued, and never between steps: before the wait every
\* statement of main can execute whatever the device is doing, the wait is
\* the one statement that cannot while the marker is not reached, the marker
\* is enqueued after the last launch and reached only when every issued
\* stencil launch has completed, and the copy to the host starts after that,
\* from the buffer whose last step's stores are all done.
C14_BlocksOnce ==
    /\ pc \notin {"wait", "done"} => ENABLED HostNext
    /\ pc = "wait" => (ENABLED HostNext <=> "stop_event" \in recorded)
    /\ \A p \in 1..Len(queue) :
          queue[p].op = "stop_event" => (p = Len(queue) /\ step = nsteps)
    /\ "stop_event" \in recorded =>
          /\ step = nsteps
          /\ queue = <<>>
          /\ ~Running
          /\ blk = NoBlock
          /\ completed = Accepted
    /\ pc \in {"copy", "done"} =>
          /\ "stop_event" \in recorded
          /\ completed >= 1 => \A k \in Interior : wcount[k] = 1
    /\ pc = "done" => x_host = mem[x0]

\* two steps were issued while the device was behind, the host waited, and
\* the grid of the second step has been copied out
C14_Witness ==
    /\ pc = "done"
    /\ nsteps = 2
    /\ completed = 2
    /\ x_host = mem["A"]
    /\ x_host # InitGrid

\* ------------------------------------------- a launch in one fixed order
\* the n-th unit of a block and the n-th block of the launch grid
UnitNo(n) == <<n % block_dim.x, n \div block_dim.x>>

BlockNo(n) == <<n % grid_dim.x, n \div grid_dim.x>>

UnitCount == block_dim.x * block_dim.y

\* the staging phase of the units lo..hi-1 of block b, one after the other
\* (the range is halved as in fill_launch)
RECURSIVE stage_units(_, _, _, _, _)
stage_units(buf, src, b, lo, hi) ==
    IF hi <= lo THEN buf
    ELSE IF hi = lo + 1
         THEN IF Inside(b, UnitNo(lo))
              THEN diffusion_shared_stage(buf, src, nx - 2, UnitNo(lo)[1],
                                          UnitNo(lo)[2], b[1], b[2]).buffer
              ELSE buf
    ELSE LET w == stage_units(buf, src, b, lo, Mid(lo, hi))
         IN  IF DOMAIN w = DOMAIN buf
             THEN stage_units(w, src, b, Mid(lo, hi), hi)
             ELSE w

\* the compute phase of the same units
RECURSIVE compute_units(_, _, _, _, _)
compute_units(buf, dst, b, lo, hi) ==
    IF hi <= lo THEN dst
    ELSE IF hi = lo + 1
         THEN IF Inside(b, UnitNo(lo))
              THEN diffusion_shared_compute(buf, dst, nx - 2, UnitNo(lo)[1],
                                            UnitNo(lo)[2], b[1], b[2]).dst
              ELSE dst
    ELSE LET w == compute_units(buf, dst, b, lo, Mid(lo, hi))
         IN  IF DOMAIN w = DOMAIN dst
             THEN compute_units(buf, w, b, Mid(lo, hi), hi)
             ELSE w

\* the blocks lo..hi-1 of diffusion_shared<<<grid_dim, block_dim>>>, each from
\* a staging buffer holding g
RECURSIVE tiled_blocks(_, _, _, _, _)
tiled_blocks(src, dst, g, lo, hi) ==
    IF hi <= lo THEN dst
    ELSE IF hi = lo + 1
         THEN compute_units(stage_units(FreshTile(g), src, BlockNo(lo), 0,
                                        UnitCount),
                            dst, BlockNo(lo), 0, UnitCount)
    ELSE LET w == tiled_blocks(src, dst, g, lo, Mid(lo, hi))
         IN  IF DOMAIN w = DOMAIN dst
             THEN tiled_blocks(src, w, g, Mid(lo, hi), hi)
             ELSE w

tiled_launch(src, dst) ==
    tiled_blocks(src, dst, Zero, 0, grid_dim.x * grid_dim.y)

\* C15: determinism.  The destination grid after a stencil launch depends
\* only on the source grid, dt and the dimensions: whatever the order of the
\* blocks and the interleaving of their units, and for every height 2^pow,
\* a launch that has run all its blocks leaves the grid that the same
\* kernel leaves when its blocks and units run one after the other.
C15_Determinism ==
    (Running /\ LaunchOver)
        => mem[cur.dst] = IF cur.op = "diffusion"
                          THEN naive_launch(mem[cur.src], mem[cur.dst])
                          ELSE tiled_launch(mem[cur.src], mem[cur.dst])

\* ------------------------------------------------------- the tile's corners
\* the staging indices of the offsets (0,0), (Bx+1,0), (0,By+1), (Bx+1,By+1)
TileCorners ==
    LET shared_width == block_dim.x + 2
    IN  {0, block_dim.x + 1, (block_dim.y + 1) * shared_width,
         (block_dim.y + 1) * shared_width + block_dim.x + 1}

\* C16: in the tiled kernel the four diagonal corner cells of the staging
\* tile are never written in the staging phase and never read in the
\* compute phase: no corner of the resident block's buffer has been stored
\* to, and no unit of the block names a corner among the staging indices it
\* stores to or loads from.
C16_CornersUnused ==
    /\ \A c \in TileCorners : c \in DOMAIN buffer /\ ~buffer[c].w
    /\ (cur.op = "diffusion_shared" /\ blk # NoBlock) =>
          \A u \in Units :
             /\ diffusion_shared_stage(buffer, mem[cur.src], nx - 2, u[1], u[2],
                                       blk[1], blk[2]).swr \cap TileCorners = {}
             /\ \A c \in diffusion_shared_compute(buffer, mem[cur.dst], nx - 2,
                                                  u[1], u[2], blk[1],
                                                  blk[2]).srd :
                   c[1] \notin TileCorners

\* every unit of a whole block has staged and computed: every cell of the
\* tile but the four corners was stored to, and the corners still hold what
\* the staging memory held before
C16_Witness ==
    /\ cur.op = "diffusion_shared"
    /\ \A u \in Units : tpc[u] = "done"
    /\ \A k \in DOMAIN buffer : buffer[k].w <=> k \notin TileCorners
    /\ \A c \in TileCorners : buffer[c].val = 20 * One

\* C17: memory safety.  Every global index a stencil unit loads from or
\* stores to lies inside the array of (nx+2)*(ny+2) doubles, every staging
\* index a unit of the tiled kernel loads from or stores to lies inside the
\* staging buffer of the size asked for at the launch, and no fill stores
\* outside the array it was given: no access of a run has fallen outside
\* its array, and the arrays have the sizes main allocated and asked for.
C17_MemorySafe ==
    /\ ~oob
    /\ \A b \in Buffers : DOMAIN mem[b] = 0..(nx * ny - 1)
    /\ Cardinality(DOMAIN buffer) * SizeofDouble = shared_size

\* a tiled run on a domain lower than a block is over: the fills of both
\* boundary rows and the units of the last interior row, which load the
\* staging cell below them, have run
C17_Witness ==
    /\ pc = "done"
    /\ use_shared
    /\ pow = 0
    /\ completed = 2
    /\ bad_read

\* C18: no integer wrap-around.  For every power main accepts, the height
\* 1 << pow, the element count (nx+2)*(ny+2) as it arrives in the int n of
\* fill_gpu and fill, and the linear index pos of a unit equal their
\* mathematical values, so that the zero fill covers the whole grid and pos
\* addresses the intended cell.
C18_NoWrap ==
    LET height == 2 ^ wd.p
        count == nx * (height + 2)
    IN  /\ wd.at \in {"buffer_size", "fill", "pos", "end"} => wd.ny = height + 2
        /\ wd.at \in {"fill", "pos", "end"} => wd.buffer_size = count
        /\ wd.at \in {"pos", "end"} => (wd.n = count /\ wd.covered = count)
        /\ wd.at = "end" => wd.pos = (wd.i + 1) + (wd.j + 1) * nx

\* ------------------------------------------------------ the driver's phases
\* the device executes the stream's next operation, or a step of the launch
\* it is executing
DeviceNext ==
    \/ DevEvent
    \/ KernelBegin
    \/ BlockBegin
    \/ UnitDiffusion
    \/ UnitSkip
    \/ UnitStage
    \/ UnitCompute
    \/ BlockEnd
    \/ KernelEnd

\* the step DevFill, told by what it does to the stream: no other step takes
\* a fill from the head of the stream of an idle device
FillTaken == Idle /\ stream_next.op = "fill" /\ queue' = stream_rest

\* the host thread keeps running and the device keeps executing its stream
FairSpec ==
    Spec /\ WF_vars(HostNext) /\ WF_vars(DeviceNext) /\ WF_queue(FillTaken)

\* main's statements in program order
PcOrder ==
    << "zero_x0", "zero_x1", "row0_x0", "row0_x1", "rowN_x0", "rowN_x1",
       "start_event", "loop", "wait", "copy", "done" >>

PcRank(at) == CHOOSE k \in 1..Len(PcOrder) : PcOrder[k] = at

\* Initializing, Running, Done
Phase(at) ==
    IF PcRank(at) < PcRank("loop") THEN "Initializing"
    ELSE IF at = "loop" THEN "Running" ELSE "Done"

\* the kernel of the run's strategy
Strategy == IF use_shared THEN "diffusion_shared" ELSE "diffusion"

\* the stencil launches enqueued so far
Enqueued == completed + Len(Launches)

Linear ==
    /\ pc \in {PcOrder[k] : k \in 1..Len(PcOrder)}
    /\ step <= nsteps
    /\ Phase(pc) = "Initializing" => (step = 0 /\ Enqueued = 0)
    /\ Phase(pc) = "Done" => step = nsteps
    /\ Enqueued = (IF use_shared /\ ~TileFits THEN 0 ELSE step)
    /\ \A k \in 1..Len(Launches) : Launches[k].op = Strategy

Forward ==
    /\ PcRank(pc') >= PcRank(pc)
    /\ use_shared' = use_shared
    /\ nsteps' = nsteps
    /\ step' # step => (pc = "loop" /\ pc' = "loop" /\ step' = step + 1)

=============================================================================
